---------------------------- MODULE Spec2Model ----------------------------
(***************************************************************************)
(* The BrainFuck interpreter family of src/bfi/bfi.py: Bfi (level 0),      *)
(* BfiT1 (level 1), BfiT2 (level 2) and BfiT3 (level 3).                   *)
(*                                                                         *)
(* One interpreter object is modelled together with the caller that        *)
(* drives it the way execute() does (load, then evaluate), and that may    *)
(* afterwards load the same source again or call reset() and evaluate      *)
(* again.  evaluate() is unrolled: one Step per iteration of its loop.     *)
(*                                                                         *)
(* Values.  A tape cell or the storage register holds a Python value.      *)
(* Python ints in cells are never negative (every writer reduces modulo    *)
(* 256, masks, shifts right, or stores ord(c)), so a non-negative number   *)
(* stands for that int and the negative number Str(c) = -(c + 1) stands    *)
(* for the one-character str whose code point is c (what get_char          *)
(* stores).                                                                *)
(*                                                                         *)
(* Indices.  Python lists are 0-based, TLA+ sequences 1-based: the Python  *)
(* value of stack_ptr, inst_ptr, storage_ptr and the entries of            *)
(* inst_stack are kept, and list element i is sequence element i + 1.      *)
(*                                                                         *)
(* Exceptions.  A handler that raises leaves the fields it had already     *)
(* assigned and records the exception's class name in exc.                 *)
(***************************************************************************)
EXTENDS Integers, Sequences, FiniteSets, TLC

VARIABLES
    bfi_type,          \* execute(): which class was constructed (0..3)
    source,            \* the source text handed to load(), a sequence of characters
    stack_length,      \* self.stack_length
    stack,             \* self.stack, the tape
    stack_ptr,         \* self.stack_ptr, the tape cursor
    inst_stack,        \* self.inst_stack, the control-flow stack (top first)
    inst_ptr,          \* self.inst_ptr
    cycles,            \* self.cycles
    program,           \* self.program, the filtered instruction sequence
    storage,           \* self.storage (BfiT1 and above)
    initializer_data,  \* self.initializer_data (BfiT2 and above)
    storage_ptr,       \* self.storage_ptr (BfiT3), None when not redirected
    c,                 \* step(): the symbol fetched by the latest step
    out,               \* the characters printed so far, as code points
    pc,                \* where the caller is: new, loaded, running, done, raised
    exc,               \* the class of the exception that reached the caller
    calls              \* how many times the caller has called load() or reset()

vars == <<bfi_type, source, stack_length, stack, stack_ptr, inst_stack, inst_ptr,
          cycles, program, storage, initializer_data, storage_ptr, c, out, pc,
          exc, calls>>

-----------------------------------------------------------------------------
(* Bounds of the model. *)

\* Sources are all texts of at most MaxLen characters over one symbol group.
MaxLen == 3

\* Tape capacities given to the constructor: 0..MaxStackLength.
MaxStackLength == 2

\* A run is followed for at most MaxCycles steps.
MaxCycles == 12

\* The caller calls load() or reset() at most MaxCalls times on one object.
MaxCalls == 2

-----------------------------------------------------------------------------
(* Python values. *)

\* storage_ptr = None
None == -1

\* The one-character str with code point cp.
Str(cp) == -(cp + 1)

IsStr(v) == v < 0

IsInt(v) == v >= 0

\* ord(ch) for the characters the sources are written with.
Ord(ch) ==
    CASE ch = "!" -> 33  [] ch = "#" -> 35  [] ch = "$" -> 36  [] ch = "%" -> 37
      [] ch = "&" -> 38  [] ch = "(" -> 40  [] ch = ")" -> 41  [] ch = "*" -> 42
      [] ch = "+" -> 43  [] ch = "," -> 44  [] ch = "-" -> 45  [] ch = "." -> 46
      [] ch = "/" -> 47  [] ch = "0" -> 48  [] ch = "1" -> 49  [] ch = "2" -> 50
      [] ch = "3" -> 51  [] ch = "4" -> 52  [] ch = "5" -> 53  [] ch = "6" -> 54
      [] ch = "7" -> 55  [] ch = "8" -> 56  [] ch = "9" -> 57  [] ch = ":" -> 58
      [] ch = "<" -> 60  [] ch = "=" -> 61  [] ch = ">" -> 62  [] ch = "?" -> 63
      [] ch = "@" -> 64  [] ch = "A" -> 65  [] ch = "B" -> 66  [] ch = "C" -> 67
      [] ch = "D" -> 68  [] ch = "E" -> 69  [] ch = "F" -> 70  [] ch = "L" -> 76
      [] ch = "M" -> 77  [] ch = "X" -> 88  [] ch = "[" -> 91  [] ch = "]" -> 93
      [] ch = "^" -> 94  [] ch = "_" -> 95  [] ch = "a" -> 97  [] ch = "l" -> 108
      [] ch = "m" -> 109 [] ch = "x" -> 120 [] ch = "{" -> 123 [] ch = "|" -> 124
      [] ch = "}" -> 125 [] ch = "~" -> 126

\* Python's a ^ b, a & b and a | b on non-negative ints, bit by bit.
RECURSIVE BitXor(_, _)
BitXor(a, b) ==
    IF a = 0 THEN b
    ELSE IF b = 0 THEN a
    ELSE (((a % 2) + (b % 2)) % 2) + 2 * BitXor(a \div 2, b \div 2)

RECURSIVE BitAnd(_, _)
BitAnd(a, b) ==
    IF a = 0 \/ b = 0 THEN 0
    ELSE ((a % 2) * (b % 2)) + 2 * BitAnd(a \div 2, b \div 2)

RECURSIVE BitOr(_, _)
BitOr(a, b) ==
    IF a = 0 THEN b
    ELSE IF b = 0 THEN a
    ELSE (IF (a % 2) = 1 \/ (b % 2) = 1 THEN 1 ELSE 0) + 2 * BitOr(a \div 2, b \div 2)

\* list.insert(i, x): an index past the end appends.
ListInsert(l, i, x) ==
    LET k == IF i > Len(l) THEN Len(l) ELSE i
    IN  SubSeq(l, 1, k) \o <<x>> \o SubSeq(l, k + 1, Len(l))

\* list.pop(i) for a valid index i: the list without element i.
ListPop(l, i) == SubSeq(l, 1, i) \o SubSeq(l, i + 2, Len(l))

\* [0] * n
Zeros(n) == [i \in 1..n |-> 0]

-----------------------------------------------------------------------------
(* The interpreter object as a record, so that a handler is a function from *)
(* the object before the call to the object after it.                        *)

Self ==
    [stack |-> stack, stack_ptr |-> stack_ptr, inst_stack |-> inst_stack,
     inst_ptr |-> inst_ptr, cycles |-> cycles, program |-> program,
     storage |-> storage, initializer_data |-> initializer_data,
     storage_ptr |-> storage_ptr, out |-> out, exc |-> "none"]

\* An exception of class e leaves the handler.
Raise(o, e) == [o EXCEPT !.exc = e]

\* self.stack[i] addresses a cell (i is never negative).
Valid(o, i) == i < Len(o.stack)

\* self.stack[self.stack_ptr]
Cell(o) == o.stack[o.stack_ptr + 1]

\* self.stack[self.stack_ptr] = v
SetCell(o, v) == [o EXCEPT !.stack[o.stack_ptr + 1] = v]

-----------------------------------------------------------------------------
(* class Bfi *)

CommandMap0 == {"+", "-", ">", "<", ".", ",", "[", "]"}

inc(o) ==
    IF ~Valid(o, o.stack_ptr) THEN Raise(o, "IndexError")
    ELSE IF IsStr(Cell(o)) THEN Raise(o, "TypeError")
    ELSE SetCell(o, (Cell(o) + 1) % 256)

\* A dec that stops at 0 instead of wrapping to 255.
dec_stops_at_zero(o) ==
    IF ~Valid(o, o.stack_ptr) THEN Raise(o, "IndexError")
    ELSE IF IsStr(Cell(o)) THEN Raise(o, "TypeError")
    ELSE SetCell(o, IF Cell(o) = 0 THEN 0 ELSE Cell(o) - 1)

dec(o) ==
    IF ~Valid(o, o.stack_ptr) THEN Raise(o, "IndexError")
    ELSE IF IsStr(Cell(o)) THEN Raise(o, "TypeError")
    ELSE SetCell(o, (Cell(o) - 1) % 256)

inc_ptr(o) ==
    IF stack_length = 0 THEN Raise(o, "ZeroDivisionError")
    ELSE [o EXCEPT !.stack_ptr = (o.stack_ptr + 1) % stack_length]

dec_ptr(o) ==
    IF stack_length = 0 THEN Raise(o, "ZeroDivisionError")
    ELSE [o EXCEPT !.stack_ptr = (o.stack_ptr - 1) % stack_length]

put_char(o) ==
    IF ~Valid(o, o.stack_ptr) THEN Raise(o, "IndexError")
    ELSE IF IsStr(Cell(o)) THEN Raise(o, "TypeError")
    ELSE [o EXCEPT !.out = Append(o.out, Cell(o))]

\* line is what input() returned, a sequence of code points.
get_char(o, line) ==
    IF Len(line) = 0 THEN Raise(o, "IndexError")
    ELSE IF ~Valid(o, o.stack_ptr) THEN Raise(o, "IndexError")
    ELSE SetCell(o, Str(line[1]))

\* An open_brace that records the place after the '[' instead of the '['.
open_brace_pushes_next(o) ==
    [o EXCEPT !.inst_stack = <<o.inst_ptr + 1>> \o o.inst_stack]

\* An open_brace that tests the cell first, as a while loop would: on a zero
\* cell it moves the pointer to the next ']' and pushes nothing.
open_brace_skips_on_zero(o) ==
    LET later == {j \in (o.inst_ptr + 1)..(Len(o.program) - 1) :
                     o.program[j + 1] = "]"}
    IN  IF Valid(o, o.stack_ptr) /\ Cell(o) = 0 /\ later # {}
        THEN [o EXCEPT !.inst_ptr = CHOOSE j \in later : \A k \in later : j <= k]
        ELSE [o EXCEPT !.inst_stack = <<o.inst_ptr>> \o o.inst_stack]

open_brace(o) == [o EXCEPT !.inst_stack = <<o.inst_ptr>> \o o.inst_stack]

\* A close_brace whose test is inverted: it loops back on a zero cell.
close_brace_loops_on_zero(o) ==
    IF ~Valid(o, o.stack_ptr) THEN Raise(o, "IndexError")
    ELSE IF Cell(o) = 0
         THEN IF o.inst_stack = <<>> THEN Raise(o, "IndexError")
              ELSE [o EXCEPT !.inst_ptr = o.inst_stack[1]]
         ELSE IF o.inst_stack = <<>> THEN Raise(o, "IndexError")
              ELSE [o EXCEPT !.inst_stack = Tail(o.inst_stack)]

close_brace(o) ==
    IF ~Valid(o, o.stack_ptr) THEN Raise(o, "IndexError")
    ELSE IF Cell(o) # 0
         THEN IF o.inst_stack = <<>> THEN Raise(o, "IndexError")
              ELSE [o EXCEPT !.inst_ptr = o.inst_stack[1]]
         ELSE IF o.inst_stack = <<>> THEN Raise(o, "IndexError")
              ELSE [o EXCEPT !.inst_stack = Tail(o.inst_stack)]

\* Bfi.reset
reset0(o) ==
    [o EXCEPT !.stack = Zeros(stack_length), !.stack_ptr = 0,
              !.inst_ptr = 0, !.cycles = 0]

-----------------------------------------------------------------------------
(* class BfiT1 *)

CommandMap1 == CommandMap0 \cup {"@", "$", "!", "}", "{", "~", "^", "&", "|"}

\* exit(0)
end_prog(o) == Raise(o, "SystemExit")

store_data(o) ==
    IF ~Valid(o, o.stack_ptr) THEN Raise(o, "IndexError")
    ELSE [o EXCEPT !.storage = Cell(o)]

load_data(o) ==
    IF ~Valid(o, o.stack_ptr) THEN Raise(o, "IndexError")
    ELSE SetCell(o, o.storage)

right_shift(o) ==
    IF ~Valid(o, o.stack_ptr) THEN Raise(o, "IndexError")
    ELSE IF IsStr(Cell(o)) THEN Raise(o, "TypeError")
    ELSE SetCell(o, Cell(o) \div 2)

left_shift(o) ==
    IF ~Valid(o, o.stack_ptr) THEN Raise(o, "IndexError")
    ELSE IF IsStr(Cell(o)) THEN Raise(o, "TypeError")
    ELSE SetCell(o, (Cell(o) * 2) % 256)

bitwise_not(o) ==
    IF ~Valid(o, o.stack_ptr) THEN Raise(o, "IndexError")
    ELSE IF IsStr(Cell(o)) THEN Raise(o, "TypeError")
    ELSE SetCell(o, (-Cell(o) - 1) % 256)

bitwise_xor(o) ==
    IF ~Valid(o, o.stack_ptr) THEN Raise(o, "IndexError")
    ELSE IF IsStr(Cell(o)) \/ IsStr(o.storage) THEN Raise(o, "TypeError")
    ELSE SetCell(o, BitXor(Cell(o), o.storage) % 256)

bitwise_and(o) ==
    IF ~Valid(o, o.stack_ptr) THEN Raise(o, "IndexError")
    ELSE IF IsStr(Cell(o)) \/ IsStr(o.storage) THEN Raise(o, "TypeError")
    ELSE SetCell(o, BitAnd(Cell(o), o.storage) % 256)

bitwise_or(o) ==
    IF ~Valid(o, o.stack_ptr) THEN Raise(o, "IndexError")
    ELSE IF IsStr(Cell(o)) \/ IsStr(o.storage) THEN Raise(o, "TypeError")
    ELSE SetCell(o, BitOr(Cell(o), o.storage) % 256)

-----------------------------------------------------------------------------
(* class BfiT2 *)

CommandMap2 == CommandMap1 \cup {"?", ")", "(", "*", "/", "=", "_", "%"}

\* load_inst_ptr as it would be if it jumped to the storage register's value.
load_inst_ptr_from_storage(o) ==
    IF ~Valid(o, o.stack_ptr) THEN Raise(o, "IndexError")
    ELSE IF IsStr(o.storage) THEN Raise(o, "TypeError")
    ELSE [o EXCEPT !.inst_ptr = (o.storage - 1) % Len(o.program)]

\* A load_inst_ptr that does not reduce the target modulo the program length.
load_inst_ptr_no_modulo(o) ==
    IF ~Valid(o, o.stack_ptr) THEN Raise(o, "IndexError")
    ELSE IF IsStr(Cell(o)) THEN Raise(o, "TypeError")
    ELSE [o EXCEPT !.inst_ptr = Cell(o) - 1]

load_inst_ptr(o) ==
    IF ~Valid(o, o.stack_ptr) THEN Raise(o, "IndexError")
    ELSE IF IsStr(Cell(o)) THEN Raise(o, "TypeError")
    ELSE [o EXCEPT !.inst_ptr = (Cell(o) - 1) % Len(o.program)]

insert_data_cell(o) == [o EXCEPT !.stack = ListInsert(o.stack, o.stack_ptr, 0)]

remove_data_cell(o) ==
    IF ~Valid(o, o.stack_ptr) THEN Raise(o, "IndexError")
    ELSE [o EXCEPT !.stack = ListPop(o.stack, o.stack_ptr)]

\* str * int repeats the str, and the following % 256 is then a str
\* formatting with an argument left over: TypeError, as for every other mix.
mul(o) ==
    IF ~Valid(o, o.stack_ptr) THEN Raise(o, "IndexError")
    ELSE IF IsStr(Cell(o)) \/ IsStr(o.storage) THEN Raise(o, "TypeError")
    ELSE SetCell(o, (Cell(o) * o.storage) % 256)

\* div as it would be if a zero divisor gave a result instead of raising.
div_zero_gives_zero(o) ==
    IF ~Valid(o, o.stack_ptr) THEN Raise(o, "IndexError")
    ELSE IF IsStr(Cell(o)) \/ IsStr(o.storage) THEN Raise(o, "TypeError")
    ELSE IF o.storage = 0 THEN SetCell(o, 0)
    ELSE SetCell(o, (Cell(o) \div o.storage) % 256)

\* int(a / b) of two non-negative ints truncates, which is a \div b.
div(o) ==
    IF ~Valid(o, o.stack_ptr) THEN Raise(o, "IndexError")
    ELSE IF IsStr(Cell(o)) \/ IsStr(o.storage) THEN Raise(o, "TypeError")
    ELSE IF o.storage = 0 THEN Raise(o, "ZeroDivisionError")
    ELSE SetCell(o, (Cell(o) \div o.storage) % 256)

add(o) ==
    IF ~Valid(o, o.stack_ptr) THEN Raise(o, "IndexError")
    ELSE IF IsStr(Cell(o)) \/ IsStr(o.storage) THEN Raise(o, "TypeError")
    ELSE SetCell(o, (Cell(o) + o.storage) % 256)

sub(o) ==
    IF ~Valid(o, o.stack_ptr) THEN Raise(o, "IndexError")
    ELSE IF IsStr(Cell(o)) \/ IsStr(o.storage) THEN Raise(o, "TypeError")
    ELSE SetCell(o, (Cell(o) - o.storage) % 256)

mod(o) ==
    IF ~Valid(o, o.stack_ptr) THEN Raise(o, "IndexError")
    ELSE IF IsStr(Cell(o)) \/ IsStr(o.storage) THEN Raise(o, "TypeError")
    ELSE IF o.storage = 0 THEN Raise(o, "ZeroDivisionError")
    ELSE SetCell(o, (Cell(o) % o.storage) % 256)

\* BfiT2.reset: Bfi.reset, then stack[i] = e for each initializer byte in
\* turn; the first byte past the end of the tape raises.
reset2(o) ==
    LET r == reset0(o)
        seeded == [i \in 1..stack_length |->
                     IF i <= Len(o.initializer_data) THEN o.initializer_data[i] ELSE 0]
    IN  IF Len(o.initializer_data) > stack_length
        THEN Raise([r EXCEPT !.stack = seeded], "IndexError")
        ELSE [r EXCEPT !.stack = seeded]

-----------------------------------------------------------------------------
(* class BfiT3 *)

CommandMap3 ==
    CommandMap2 \cup {"X", "x", "M", "m", "L", "l", ":", "#",
                      "0", "1", "2", "3", "4", "5", "6", "7",
                      "8", "9", "A", "B", "C", "D", "E", "F"}

\* self.storage if self.storage_ptr is None else self.stack[self.storage_ptr]
StorageReadable(o) == o.storage_ptr = None \/ Valid(o, o.storage_ptr)

StorageValue(o) ==
    IF o.storage_ptr = None THEN o.storage ELSE o.stack[o.storage_ptr + 1]

reset3(o) ==
    LET r == reset2(o)
    IN  IF r.exc # "none" THEN r ELSE [r EXCEPT !.storage_ptr = None]

T3_store_data(o) ==
    IF ~Valid(o, o.stack_ptr) THEN Raise(o, "IndexError")
    ELSE IF o.storage_ptr = None THEN [o EXCEPT !.storage = Cell(o)]
    ELSE IF ~Valid(o, o.storage_ptr) THEN Raise(o, "IndexError")
    ELSE [o EXCEPT !.stack[o.storage_ptr + 1] = Cell(o)]

T3_load_data(o) ==
    IF ~StorageReadable(o) THEN Raise(o, "IndexError")
    ELSE IF ~Valid(o, o.stack_ptr) THEN Raise(o, "IndexError")
    ELSE SetCell(o, StorageValue(o))

T3_mul(o) ==
    IF ~StorageReadable(o) THEN Raise(o, "IndexError")
    ELSE IF ~Valid(o, o.stack_ptr) THEN Raise(o, "IndexError")
    ELSE IF IsStr(Cell(o)) \/ IsStr(StorageValue(o)) THEN Raise(o, "TypeError")
    ELSE SetCell(o, (Cell(o) * StorageValue(o)) % 256)

T3_div(o) ==
    IF ~StorageReadable(o) THEN Raise(o, "IndexError")
    ELSE IF ~Valid(o, o.stack_ptr) THEN Raise(o, "IndexError")
    ELSE IF IsStr(Cell(o)) \/ IsStr(StorageValue(o)) THEN Raise(o, "TypeError")
    ELSE IF StorageValue(o) = 0 THEN Raise(o, "ZeroDivisionError")
    ELSE SetCell(o, (Cell(o) \div StorageValue(o)) % 256)

T3_add(o) ==
    IF ~StorageReadable(o) THEN Raise(o, "IndexError")
    ELSE IF ~Valid(o, o.stack_ptr) THEN Raise(o, "IndexError")
    ELSE IF IsStr(Cell(o)) \/ IsStr(StorageValue(o)) THEN Raise(o, "TypeError")
    ELSE SetCell(o, (Cell(o) + StorageValue(o)) % 256)

T3_sub(o) ==
    IF ~StorageReadable(o) THEN Raise(o, "IndexError")
    ELSE IF ~Valid(o, o.stack_ptr) THEN Raise(o, "IndexError")
    ELSE IF IsStr(Cell(o)) \/ IsStr(StorageValue(o)) THEN Raise(o, "TypeError")
    ELSE SetCell(o, (Cell(o) - StorageValue(o)) % 256)

T3_mod(o) ==
    IF ~StorageReadable(o) THEN Raise(o, "IndexError")
    ELSE IF ~Valid(o, o.stack_ptr) THEN Raise(o, "IndexError")
    ELSE IF IsStr(Cell(o)) \/ IsStr(StorageValue(o)) THEN Raise(o, "TypeError")
    ELSE IF StorageValue(o) = 0 THEN Raise(o, "ZeroDivisionError")
    ELSE SetCell(o, (Cell(o) % StorageValue(o)) % 256)

cmd_M(o) == [o EXCEPT !.storage_ptr = o.stack_ptr]

cmd_m(o) == [o EXCEPT !.storage_ptr = None]

\* cmd_X, cmd_x, lock_cell, unlock_cell, move_ptr, comment: pass
NoOps == {"X", "x", "L", "l", ":", "#"}

\* init_0 .. init_F: the digit's value
Nibble(ch) ==
    CASE ch = "0" -> 0   [] ch = "1" -> 1   [] ch = "2" -> 2   [] ch = "3" -> 3
      [] ch = "4" -> 4   [] ch = "5" -> 5   [] ch = "6" -> 6   [] ch = "7" -> 7
      [] ch = "8" -> 8   [] ch = "9" -> 9   [] ch = "A" -> 10  [] ch = "B" -> 11
      [] ch = "C" -> 12  [] ch = "D" -> 13  [] ch = "E" -> 14  [] ch = "F" -> 15

NibbleSymbols ==
    {"0", "1", "2", "3", "4", "5", "6", "7", "8", "9", "A", "B", "C", "D", "E", "F"}

init_N(o, ch) ==
    IF ~Valid(o, o.stack_ptr) THEN Raise(o, "IndexError")
    ELSE SetCell(o, Nibble(ch) * 16)

-----------------------------------------------------------------------------
(* Dispatch, step, reset and load, by the class that bfi_type constructed. *)

\* self.command_map.keys()
CommandMap ==
    CASE bfi_type = 0 -> CommandMap0
      [] bfi_type = 1 -> CommandMap1
      [] bfi_type = 2 -> CommandMap2
      [] bfi_type = 3 -> CommandMap3

\* self.command_map[ch](): the bound method, overrides resolved by class.
Dispatch(o, ch, line) ==
    CASE ch = "+" -> inc(o)
      [] ch = "-" -> dec(o)
      [] ch = ">" -> inc_ptr(o)
      [] ch = "<" -> dec_ptr(o)
      [] ch = "." -> put_char(o)
      [] ch = "," -> get_char(o, line)
      [] ch = "[" -> open_brace(o)
      [] ch = "]" -> close_brace(o)
      [] ch = "@" -> end_prog(o)
      [] ch = "$" -> IF bfi_type = 3 THEN T3_store_data(o) ELSE store_data(o)
      [] ch = "!" -> IF bfi_type = 3 THEN T3_load_data(o) ELSE load_data(o)
      [] ch = "}" -> right_shift(o)
      [] ch = "{" -> left_shift(o)
      [] ch = "~" -> bitwise_not(o)
      [] ch = "^" -> bitwise_xor(o)
      [] ch = "&" -> bitwise_and(o)
      [] ch = "|" -> bitwise_or(o)
      [] ch = "?" -> load_inst_ptr(o)
      [] ch = ")" -> insert_data_cell(o)
      [] ch = "(" -> remove_data_cell(o)
      [] ch = "*" -> IF bfi_type = 3 THEN T3_mul(o) ELSE mul(o)
      [] ch = "/" -> IF bfi_type = 3 THEN T3_div(o) ELSE div(o)
      [] ch = "=" -> IF bfi_type = 3 THEN T3_add(o) ELSE add(o)
      [] ch = "_" -> IF bfi_type = 3 THEN T3_sub(o) ELSE sub(o)
      [] ch = "%" -> IF bfi_type = 3 THEN T3_mod(o) ELSE mod(o)
      [] ch = "M" -> cmd_M(o)
      [] ch = "m" -> cmd_m(o)
      [] ch \in NoOps -> o
      [] ch \in NibbleSymbols -> init_N(o, ch)

\* A step that counts a cycle only for the symbols that are not brackets.
step_counts_no_brackets(o, line) ==
    LET ch == o.program[o.inst_ptr + 1]
        r  == IF ch \in CommandMap THEN Dispatch(o, ch, line) ELSE o
    IN  IF r.exc # "none" THEN r
        ELSE [r EXCEPT !.inst_ptr = r.inst_ptr + 1,
                       !.cycles = IF ch \in {"[", "]"} THEN r.cycles
                                  ELSE r.cycles + 1]

\* Bfi.step: fetch, dispatch, then advance the pointer and count the cycle
\* (neither happens when the operation raised).
step(o, line) ==
    LET ch == o.program[o.inst_ptr + 1]
        r  == IF ch \in CommandMap THEN Dispatch(o, ch, line) ELSE o
    IN  IF r.exc # "none" THEN r
        ELSE [r EXCEPT !.inst_ptr = r.inst_ptr + 1, !.cycles = r.cycles + 1]

\* self.reset()
reset(o) ==
    CASE bfi_type \in {0, 1} -> reset0(o)
      [] bfi_type = 2 -> reset2(o)
      [] bfi_type = 3 -> reset3(o)

\* The number of '[' of text minus the number of ']'.
BraceCount(text) ==
    Cardinality({i \in 1..Len(text) : text[i] = "["})
      - Cardinality({i \in 1..Len(text) : text[i] = "]"})

\* [b for b in program if b in self.command_map.keys()]
Executable(text) == SelectSeq(text, LAMBDA b : b \in CommandMap)

\* Bfi.load
load0(o, text, validate) ==
    IF validate /\ BraceCount(text) # 0 THEN Raise(o, "ValueError")
    ELSE reset([o EXCEPT !.program = Executable(text)])

\* text.split('@')
RECURSIVE Split(_)
Split(text) ==
    LET at == {i \in 1..Len(text) : text[i] = "@"}
    IN  IF at = {} THEN <<text>>
        ELSE LET k == CHOOSE i \in at : \A j \in at : i <= j
             IN  <<SubSeq(text, 1, k - 1)>> \o Split(SubSeq(text, k + 1, Len(text)))

\* '@'.join(parts)
RECURSIVE Join(_)
Join(parts) ==
    IF Len(parts) = 0 THEN <<>>
    ELSE IF Len(parts) = 1 THEN parts[1]
    ELSE parts[1] \o <<"@">> \o Join(Tail(parts))

\* BfiT2.load as it would be if it split at the first '@' instead of the last.
load2_first_at(o, text) ==
    LET parts     == Split(text)
        code      == parts[1]
        init_data == IF Len(parts) > 1 THEN Join(Tail(parts)) ELSE <<>>
        r         == load0(o, code, TRUE)
    IN  IF r.exc # "none" THEN r
        ELSE reset([r EXCEPT !.initializer_data =
                                 [i \in 1..Len(init_data) |-> Ord(init_data[i])]])

\* BfiT2.load as it would be if it took the payload from after the last '@'
\* but left the whole text, delimiter included, as the program.
load2_keeps_delimiter(o, text) ==
    LET parts     == Split(text)
        init_data == IF Len(parts) > 1 THEN parts[Len(parts)] ELSE <<>>
        r         == load0(o, text, TRUE)
    IN  IF r.exc # "none" THEN r
        ELSE reset([r EXCEPT !.initializer_data =
                                 [i \in 1..Len(init_data) |-> Ord(init_data[i])]])

\* BfiT2.load: the text before the last '@' is the program, the text after
\* it the initializer data; Bfi.load (which resets with the initializer data
\* of before), then the new initializer data, then reset again.
load2(o, text) ==
    LET parts     == Split(text)
        code      == IF Len(parts) > 1 THEN Join(SubSeq(parts, 1, Len(parts) - 1))
                     ELSE parts[1]
        init_data == IF Len(parts) > 1 THEN parts[Len(parts)] ELSE <<>>
        r         == load0(o, code, TRUE)
    IN  IF r.exc # "none" THEN r
        ELSE reset([r EXCEPT !.initializer_data =
                                 [i \in 1..Len(init_data) |-> Ord(init_data[i])]])

\* bfi.load(program), as execute() calls it
load(o, text) == IF bfi_type >= 2 THEN load2(o, text) ELSE load0(o, text, TRUE)

-----------------------------------------------------------------------------
(* The inputs. *)

\* The symbol groups sources are written over, each from its lowest level.
\* "a" is bound at no level.
Groups ==
    { [lo |-> 0, syms |-> {"+", "-", "[", "]"}],
      [lo |-> 0, syms |-> {"+", ">", "<", ",", ".", "a"}],
      [lo |-> 1, syms |-> {"+", "$", "!", "@", "~", ","}],
      [lo |-> 1, syms |-> {"-", "+", "$", "^", "&", "|"}],
      [lo |-> 1, syms |-> {"+", "-", "{", "}"}],
      [lo |-> 2, syms |-> {"+", "$", "*", "/", "%", "=", "_"}],
      [lo |-> 2, syms |-> {"+", "?", "[", "]", "$"}],
      [lo |-> 2, syms |-> {"+", ">", "<", "(", ")"}],
      [lo |-> 2, syms |-> {"+", "@", "A", "B", "[", "]"}],
      [lo |-> 3, syms |-> {"+", "M", "m", "$", "!", ">"}],
      [lo |-> 3, syms |-> {"+", "M", ">", "^", "&", "|", "/", "%"}],
      [lo |-> 3, syms |-> {"0", "1", "2", "3", "X", "x"}],
      [lo |-> 3, syms |-> {"4", "5", "6", "7", "L", "l"}],
      [lo |-> 3, syms |-> {"8", "9", "A", "B", ":", "#"}],
      [lo |-> 3, syms |-> {"C", "D", "E", "F", "+", "."}] }

\* The programs the specification names as scenarios, a loop that repeats
\* inside a loop, and a halt inside a loop, at every level.
Scenarios ==
    { <<"+", "+", ".">>, <<"+", "[", "-", "]">>, <<"+", "+", "+", "$", ".">>,
      <<"+", "[", ">", "+", "<", "]">>, <<"[", "[", "]", "]">>,
      <<"+", "+", "[", "[", "-", "]", "]">>, <<"[", "@", "]">> }

Texts(syms) == UNION {[1..n -> syms] : n \in 0..MaxLen}

Sources(level) ==
    Scenarios \cup UNION {Texts(g.syms) : g \in {h \in Groups : h.lo <= level}}

\* What input() may return: an empty line, or a line starting with 'A'.
InputLines == {<<>>, <<65>>}

-----------------------------------------------------------------------------
(* The state machine. *)

\* __init__: the fields of a newly constructed object.
New ==
    [stack |-> Zeros(stack_length), stack_ptr |-> 0, inst_stack |-> <<>>,
     inst_ptr |-> 0, cycles |-> 0, program |-> <<>>, storage |-> 0,
     initializer_data |-> <<>>, storage_ptr |-> None, out |-> <<>>,
     exc |-> "none"]

\* The object the constructor returns, before the caller's first call.
Init ==
    /\ bfi_type \in 0..3
    /\ stack_length \in 0..MaxStackLength
    /\ source \in Sources(bfi_type)
    /\ stack = New.stack
    /\ stack_ptr = New.stack_ptr
    /\ inst_stack = New.inst_stack
    /\ inst_ptr = New.inst_ptr
    /\ cycles = New.cycles
    /\ program = New.program
    /\ storage = New.storage
    /\ initializer_data = New.initializer_data
    /\ storage_ptr = New.storage_ptr
    /\ out = New.out
    /\ exc = New.exc
    /\ c = ""
    /\ pc = "new"
    /\ calls = 0

\* The object's fields become those of o.
Becomes(o) ==
    /\ stack' = o.stack
    /\ stack_ptr' = o.stack_ptr
    /\ inst_stack' = o.inst_stack
    /\ inst_ptr' = o.inst_ptr
    /\ cycles' = o.cycles
    /\ program' = o.program
    /\ storage' = o.storage
    /\ initializer_data' = o.initializer_data
    /\ storage_ptr' = o.storage_ptr
    /\ out' = o.out
    /\ exc' = o.exc

\* The caller calls bfi.load(source): first on the new object, later again
\* after a run has ended.
Load ==
    /\ pc \in {"new", "done", "raised"}
    /\ calls < MaxCalls
    /\ LET r == load([Self EXCEPT !.out = <<>>], source)
       IN  /\ Becomes(r)
           /\ pc' = IF r.exc = "none" THEN "ready" ELSE "raised"
    /\ calls' = calls + 1
    /\ c' = ""
    /\ UNCHANGED <<bfi_type, source, stack_length>>

\* The caller calls bfi.reset() after a run has ended, to run again.
Reset ==
    /\ pc \in {"done", "raised"}
    /\ calls < MaxCalls
    /\ LET r == reset([Self EXCEPT !.out = <<>>])
       IN  /\ Becomes(r)
           /\ pc' = IF r.exc = "none" THEN "ready" ELSE "raised"
    /\ calls' = calls + 1
    /\ c' = ""
    /\ UNCHANGED <<bfi_type, source, stack_length>>

\* evaluate() begins: self.inst_ptr = 0.
Evaluate ==
    /\ pc = "ready"
    /\ inst_ptr' = 0
    /\ pc' = "running"
    /\ UNCHANGED <<bfi_type, source, stack_length, stack, stack_ptr, inst_stack,
                   cycles, program, storage, initializer_data, storage_ptr, c,
                   out, exc, calls>>

\* One iteration of evaluate()'s loop: self.step().
Step ==
    /\ pc = "running"
    /\ inst_ptr < Len(program)
    /\ cycles < MaxCycles
    /\ \E line \in InputLines :
         LET r == step(Self, line)
         IN  /\ Becomes(r)
             /\ pc' = IF r.exc = "none" THEN "running" ELSE "raised"
    /\ c' = program[inst_ptr + 1]
    /\ UNCHANGED <<bfi_type, source, stack_length, calls>>

\* evaluate()'s loop ends and evaluate() returns.
Return ==
    /\ pc = "running"
    /\ inst_ptr >= Len(program)
    /\ pc' = "done"
    /\ UNCHANGED <<bfi_type, source, stack_length, stack, stack_ptr, inst_stack,
                   inst_ptr, cycles, program, storage, initializer_data,
                   storage_ptr, c, out, exc, calls>>

Next == Load \/ Reset \/ Evaluate \/ Step \/ Return

Spec == Init /\ [][Next]_vars

-----------------------------------------------------------------------------
(* What the claims speak of. *)

\* The caller is about to execute one more step.
StepEnabled == pc = "running" /\ inst_ptr < Len(program) /\ cycles < MaxCycles

\* The symbol that step will fetch.
Fetched == program[inst_ptr + 1]

\* The latest call of load() or reset() raised (a step that raises leaves the
\* symbol it fetched in c).
CallRaised == pc = "raised" /\ c = ""

\* '[' minus ']' over the first n characters of text.
Depth(text, n) ==
    Cardinality({i \in 1..n : text[i] = "["}) - Cardinality({i \in 1..n : text[i] = "]"})

\* The brackets of text match: no ']' comes before its '[', none is left open.
Balanced(text) ==
    /\ Depth(text, Len(text)) = 0
    /\ \A n \in 1..Len(text) : Depth(text, n) >= 0

\* The place of the last '@' of text, 0 when it has none.
LastAt(text) ==
    IF \E i \in 1..Len(text) : text[i] = "@"
    THEN CHOOSE i \in 1..Len(text) :
             text[i] = "@" /\ \A j \in (i + 1)..Len(text) : text[j] # "@"
    ELSE 0

Byte == 0..255

-----------------------------------------------------------------------------
(* C1: load with validation succeeds on every source whose brackets are      *)
(* balanced and fails with the syntax error (ValueError here), before any    *)
(* step, on every source whose brackets are not, a ']' ahead of its '['      *)
(* included.                                                                 *)
C1_LoadValidatesBrackets ==
    calls = 1 =>
        IF Balanced(source)
        THEN ~CallRaised
        ELSE CallRaised /\ exc = "ValueError" /\ cycles = 0

(* C2: in a run (so after a load that validated the brackets), a close-loop  *)
(* step that has read the cell under the cursor never finds the control-flow *)
(* stack empty.                                                              *)
C2_NoUnderflow ==
    (/\ pc = "running" /\ inst_ptr < Len(program) /\ Fetched = "]"
     /\ Valid(Self, stack_ptr)) => inst_stack # <<>>

(* C3: every tape cell and the storage register hold an integer in 0..255.   *)
C3_ValuesAreBytes ==
    /\ \A i \in 1..Len(stack) : stack[i] \in Byte
    /\ storage \in Byte

(* C4: whenever the tape has a cell, the cursor addresses an existing cell:   *)
(* 0 <= stack_ptr < current tape length.                                     *)
C4_CursorInTape ==
    Len(stack) >= 1 => (0 <= stack_ptr /\ stack_ptr < Len(stack))

(* C5: on a tape of at least one cell, a run starts from the same state       *)
(* whenever the same source is loaded                                        *)
(* (or the object reset): the state from which evaluate() starts is the one  *)
(* a new object has after loading that source, so that the second trace      *)
(* repeats the first from its first element on.                              *)
C5_RoundTrip ==
    (pc = "ready" /\ stack_length >= 1) =>
        LET first == load(New, source)
        IN  <<stack, stack_ptr, storage, storage_ptr, inst_stack, inst_ptr, cycles>>
              = <<first.stack, first.stack_ptr, first.storage, first.storage_ptr,
                  first.inst_stack, first.inst_ptr, first.cycles>>

(* C6: at levels 1 and above, once the halt operation has executed the run   *)
(* has ended normally: evaluate() returned to the caller, no exception (and  *)
(* so no process exit) took its place.                                       *)
C6_HaltEndsRunNormally ==
    (bfi_type >= 1 /\ c = "@") => (pc = "done" /\ exc = "none")

-----------------------------------------------------------------------------
\* The step about to execute is a divide or a modulo, at level 2 or 3, and
\* the register it divides by (through the redirection at level 3) is 0.
DivideByZeroStep ==
    /\ StepEnabled
    /\ bfi_type >= 2
    /\ Fetched \in {"/", "%"}
    /\ StorageReadable(Self)
    /\ StorageValue(Self) = 0

(* C7: at levels 2 and 3 a divide or modulo by a register value of 0 raises  *)
(* at that step (ZeroDivisionError whenever the cursor addresses an integer  *)
(* cell) and writes nothing: tape, cursor, pointer and cycle count stay as   *)
(* they were.  No divide or modulo raises ZeroDivisionError otherwise, and   *)
(* after a step has raised no further step of that run executes.             *)
C7_DivideByZeroRaises ==
    [][ /\ DivideByZeroStep =>
            /\ pc' = "raised"
            /\ (Valid(Self, stack_ptr) /\ IsInt(Cell(Self))) => exc' = "ZeroDivisionError"
            /\ UNCHANGED <<stack, stack_ptr, storage, inst_ptr, cycles, inst_stack>>
        /\ (exc' = "ZeroDivisionError" /\ c' \in {"/", "%"} /\ calls' = calls)
              => (DivideByZeroStep \/ exc = "ZeroDivisionError")
        /\ pc = "raised" => (calls' = calls + 1 /\ c' = "")
      ]_vars

\* A divide or modulo has just raised on a zero register, after earlier steps.
C7_Witness ==
    /\ pc = "raised" /\ exc = "ZeroDivisionError" /\ c \in {"/", "%"}
    /\ cycles >= 1
    /\ \E i \in 1..Len(stack) : stack[i] # 0

-----------------------------------------------------------------------------
\* The step about to execute is the jump of levels 2 and 3.
JumpStep == StepEnabled /\ bfi_type >= 2 /\ Fetched = "?"

(* C8 as stated: a jump that does not raise sets the instruction pointer to  *)
(* (storage register - 1) modulo the sequence length, and the step then adds *)
(* one.                                                                      *)
C8_JumpToRegister ==
    [][ (JumpStep /\ IsInt(storage) /\ Valid(Self, stack_ptr) /\ IsInt(Cell(Self))) =>
            inst_ptr' = ((storage - 1) % Len(program)) + 1 ]_vars

(* C8 as amended: the jump sets the instruction pointer to (the cell under   *)
(* the cursor - 1) modulo the sequence length, and the step then adds one    *)
(* and counts the cycle; the register plays no part.  When the cursor        *)
(* addresses no cell or the cell holds no integer the step raises and the    *)
(* pointer stays.                                                            *)
C8_JumpToCell ==
    [][ JumpStep =>
            IF Valid(Self, stack_ptr) /\ IsInt(Cell(Self))
            THEN /\ inst_ptr' = ((Cell(Self) - 1) % Len(program)) + 1
                 /\ cycles' = cycles + 1
                 /\ pc' = "running"
            ELSE /\ pc' = "raised"
                 /\ inst_ptr' = inst_ptr ]_vars

\* A jump has just executed where the cell and the register lead to
\* different places.
C8_Witness ==
    /\ pc = "running" /\ c = "?" /\ bfi_type >= 2
    /\ IsInt(storage)
    /\ inst_ptr # ((storage - 1) % Len(program)) + 1

-----------------------------------------------------------------------------
\* The operations that consume the register.
RegisterConsumers == {"$", "!", "*", "/", "=", "_", "%", "^", "&", "|"}

\* What op makes of the cell value a and the register value r.
Combined(op, a, r) ==
    CASE op = "*" -> (a * r) % 256
      [] op = "/" -> (a \div r) % 256
      [] op = "=" -> (a + r) % 256
      [] op = "_" -> (a - r) % 256
      [] op = "%" -> (a % r) % 256
      [] op = "^" -> BitXor(a, r) % 256
      [] op = "&" -> BitAnd(a, r) % 256
      [] op = "|" -> BitOr(a, r) % 256

(* C9: at level 3, while redirection is active, every register-consuming     *)
(* operation (store, load, multiply, divide, add, subtract, modulo, XOR,     *)
(* AND, OR) works on the tape cell the register points at, and the plain     *)
(* accumulator keeps its value.                                              *)
C9_RedirectionCoversEveryConsumer ==
    [][ (/\ StepEnabled /\ bfi_type = 3 /\ storage_ptr # None
         /\ Fetched \in RegisterConsumers
         /\ Valid(Self, stack_ptr) /\ Valid(Self, storage_ptr)) =>
            LET a == stack[stack_ptr + 1]
                r == stack[storage_ptr + 1]
            IN  /\ storage' = storage
                /\ Fetched = "$" => stack'[storage_ptr + 1] = a
                /\ Fetched = "!" => stack'[stack_ptr + 1] = r
                /\ (/\ Fetched \notin {"$", "!"}
                    /\ IsInt(a) /\ IsInt(r)
                    /\ Fetched \in {"/", "%"} => r # 0)
                      => stack'[stack_ptr + 1] = Combined(Fetched, a, r) ]_vars

-----------------------------------------------------------------------------
\* The source before its last '@' (all of it when it has none), and after it.
CodePart ==
    IF LastAt(source) = 0 THEN source ELSE SubSeq(source, 1, LastAt(source) - 1)

PayloadPart ==
    IF LastAt(source) = 0 THEN <<>>
    ELSE SubSeq(source, LastAt(source) + 1, Len(source))

(* C10: at levels 2 and 3, for a source whose part before the last '@'       *)
(* passes the bracket validation, after load and after every reset, before   *)
(* any instruction executes, the program is the command symbols of the       *)
(* source before its last '@', and cell i holds the character code of the    *)
(* i-th character after it, every further cell 0.  The call returns exactly  *)
(* when the payload fits the tape; a longer payload makes it raise           *)
(* IndexError, with every cell of the tape seeded.                           *)
C10_PayloadSeedsTape ==
    (/\ bfi_type >= 2 /\ calls >= 1
     /\ Depth(CodePart, Len(CodePart)) = 0
     /\ (pc = "ready" \/ CallRaised)) =>
        /\ CallRaised => exc = "IndexError"
        /\ program = SelectSeq(CodePart, LAMBDA b : b \in CommandMap)
        /\ initializer_data = [i \in 1..Len(PayloadPart) |-> Ord(PayloadPart[i])]
        /\ Len(stack) = stack_length
        /\ \A i \in 1..Len(stack) :
             stack[i] = IF i <= Len(PayloadPart) THEN Ord(PayloadPart[i]) ELSE 0
        /\ (pc = "ready") = (Len(PayloadPart) <= stack_length)
        /\ pc = "ready" => (stack_ptr = 0 /\ inst_ptr = 0 /\ cycles = 0)

\* A source with a halt, a delimiter and a one-character payload is loaded.
C10_Witness ==
    /\ pc = "ready" /\ bfi_type >= 2
    /\ program = <<"@">>
    /\ stack = <<65, 0>>

-----------------------------------------------------------------------------

\* The source '+[-]' at level 0 on a tape that has a cell.
ClearLoop == bfi_type = 0 /\ stack_length >= 1 /\ source = <<"+", "[", "-", "]">>

\* C11 as the specification words it: the run of '+[-]' at level 0 ends with
\* the cycle counter at 2 and the cell under the cursor at 0.
C11_TwoCycles ==
    (ClearLoop /\ pc = "done") => (cycles = 2 /\ stack[stack_ptr + 1] = 0)

\* C11: at level 0 the source '+[-]' terminates after exactly 4 cycles, one
\* for each of '+', '[', '-' and ']', with the cell under the cursor at 0:
\* no step raises, the pointer is at the end once 4 cycles are counted, and
\* the finished run reports 4 cycles and an empty control-flow stack.
C11_FourCycles ==
    ClearLoop =>
        /\ pc # "raised"
        /\ cycles <= 4
        /\ (pc = "running" /\ cycles = 4) => inst_ptr = Len(program)
        /\ (pc = "running" /\ cycles < 4) => inst_ptr = cycles
        /\ pc = "done" =>
               /\ cycles = 4
               /\ stack[stack_ptr + 1] = 0
               /\ stack_ptr = 0
               /\ inst_stack = <<>>

\* The run of '+[-]' at level 0 has returned.
C11_Witness == ClearLoop /\ pc = "done" /\ c = "]" /\ stack[1] = 0

-----------------------------------------------------------------------------

\* C12: a cursor move wraps modulo the number of cells the tape has at that
\* moment: '>' takes the cursor from p to (p + 1) mod length and '<' to
\* (p - 1) mod length, also after '(' or ')' has changed the length.
C12_WrapsModuloCurrentLength ==
    [][(StepEnabled /\ stack_length >= 1 /\ Len(stack) >= 1)
        => /\ Fetched = ">" => stack_ptr' = (stack_ptr + 1) % Len(stack)
           /\ Fetched = "<" => stack_ptr' = (stack_ptr - 1) % Len(stack)]_vars

\* C13: on a tape of length zero, ')' and '(' both raise and leave tape and
\* cursor as they were.
C13_EmptyTapeFailsFast ==
    [][(StepEnabled /\ bfi_type >= 2 /\ stack = <<>> /\ Fetched \in {")", "("})
        => /\ pc' = "raised"
           /\ stack' = stack
           /\ stack_ptr' = stack_ptr]_vars

-----------------------------------------------------------------------------

\* The run has ended, by reaching the end of the program or by halt.
Terminated == pc = "done" \/ (pc = "raised" /\ exc = "SystemExit")

\* C14: at every level, for a program that passed load, the control-flow stack
\* is empty whenever the run has terminated (at the end of the program or by
\* halt), and during the run its depth is the number of loops that enclose
\* the instruction under the pointer.
C14_StackDepthIsNesting ==
    stack_length >= 1 =>
        /\ Terminated => inst_stack = <<>>
        /\ pc = "running" => Len(inst_stack) = Depth(program, inst_ptr)

-----------------------------------------------------------------------------

\* A source whose loop is entered on a nonzero cell that its body leaves
\* alone: '+[]', '-[]', or '+[>+<]' on a tape with a second cell.
ConstantLoop ==
    /\ stack_length >= 1
    /\ \/ source \in {<<"+", "[", "]">>, <<"-", "[", "]">>}
       \/ stack_length >= 2 /\ source = <<"+", "[", ">", "+", "<", "]">>

\* C15: the run of a constant loop never terminates: it never returns and no
\* step raises; whenever ']' is fetched the cursor is on the tested cell,
\* that cell still holds the nonzero value it had when the loop was entered
\* and the control-flow stack holds the one '['; and every ']' step jumps
\* back to just after the '[' with stack and tape as they were.
C15_ConstantLoopNeverEnds ==
    /\ [](ConstantLoop => pc \notin {"done", "raised"})
    /\ []((ConstantLoop /\ pc = "running" /\ inst_ptr > 1) =>
            /\ inst_ptr < Len(program)
            /\ inst_stack = <<1>>
            /\ stack[1] = IF source[1] = "+" THEN 1 ELSE 255
            /\ Fetched = "]" => stack_ptr = 0)
    /\ [][(ConstantLoop /\ StepEnabled /\ Fetched = "]") =>
            /\ pc' = "running"
            /\ inst_ptr' = 2
            /\ inst_stack' = inst_stack
            /\ stack' = stack
            /\ stack_ptr' = stack_ptr]_vars

\* The loop of '+[>+<]' has been closed twice and is in its third pass.
C15_Witness ==
    /\ ConstantLoop /\ Len(source) = 6
    /\ pc = "running" /\ c = "]" /\ inst_ptr = 2
    /\ stack[2] = 2

-----------------------------------------------------------------------------

\* text is some '+' followed by some '-'.
IncDec(text) ==
    \E n \in 0..Len(text) :
        \A i \in 1..Len(text) : text[i] = IF i <= n THEN "+" ELSE "-"

\* How many of the first n characters of text are ch.
Count(text, n, ch) == Cardinality({i \in 1..n : text[i] = ch})

\* C16: a program of N '+' followed by M '-', run on a freshly reset tape,
\* raises nothing and leaves the cell under the cursor at (N - M) mod 256,
\* a value in 0..255, with every other cell at 0 and the cursor at 0; the
\* same holds of the symbols executed so far at every point of the run.
C16_IncDecBalance ==
    (IncDec(source) /\ stack_length >= 1) =>
        /\ pc # "raised"
        /\ pc \in {"running", "done"} =>
              /\ stack[1] = (Count(source, inst_ptr, "+")
                             - Count(source, inst_ptr, "-")) % 256
              /\ stack[1] \in Byte
              /\ Len(stack) = stack_length
              /\ \A i \in 2..Len(stack) : stack[i] = 0
              /\ stack_ptr = 0
        /\ pc = "done" => inst_ptr = Len(source)

\* A run with more decrements than increments has returned: the cell wrapped.
C16_Witness ==
    /\ source = <<"+", "-", "-">> /\ stack_length = 2
    /\ pc = "done" /\ stack = <<255, 0>>

-----------------------------------------------------------------------------

\* The step about to run is a ']' that will loop back.
LoopsBack == Fetched = "]" /\ Valid(Self, stack_ptr) /\ Cell(Self) # 0

\* The step about to run is a jump.
Jumps == Fetched = "?" /\ bfi_type >= 2

\* C17: while the run is on, the instruction pointer lies in 0..length and a
\* step is fetched only below length; a step that completes leaves the
\* pointer one past its value at fetch, unless it is a ']' that loops back
\* (the pointer is then one past the top of the control-flow stack) or a
\* jump (one past (cell - 1) mod length); a step that raises leaves the
\* pointer where it was and ends the run; and the run returns exactly when
\* the pointer is at length.
C17_PointerDiscipline ==
    /\ [](pc = "running" => (0 <= inst_ptr /\ inst_ptr <= Len(program)))
    /\ [][(StepEnabled /\ pc' = "running") =>
            inst_ptr' = IF LoopsBack THEN inst_stack[1] + 1
                        ELSE IF Jumps
                             THEN ((Cell(Self) - 1) % Len(program)) + 1
                             ELSE inst_ptr + 1]_vars
    /\ [][(StepEnabled /\ pc' # "running") =>
            (pc' = "raised" /\ inst_ptr' = inst_ptr)]_vars
    /\ [][(pc = "running" /\ pc' = "done") =>
            (inst_ptr = Len(program) /\ inst_ptr' = inst_ptr)]_vars
    /\ [][(pc = "running" /\ inst_ptr = Len(program)) => pc' = "done"]_vars

\* A jump on a cell holding 2 has set the pointer back to 2 in a program of
\* three symbols, more than once.
C17_Witness ==
    /\ bfi_type >= 2 /\ program = <<"+", "+", "?">>
    /\ pc = "running" /\ c = "?" /\ inst_ptr = 2 /\ cycles >= 4

-----------------------------------------------------------------------------

\* The places (counted from 0) of the '[' among the first n characters of
\* text that are still open after them, innermost first.
RECURSIVE Enclosing(_, _)
Enclosing(text, n) ==
    IF n = 0 THEN <<>>
    ELSE LET e == Enclosing(text, n - 1)
         IN  IF text[n] = "[" THEN <<n - 1>> \o e
             ELSE IF text[n] = "]" /\ e # <<>> THEN Tail(e)
             ELSE e

\* A properly nested program runs at level 0 on a new interpreter.
FreshNested0 == bfi_type = 0 /\ calls = 1 /\ Balanced(program)

\* C18: at level 0, in the run of a properly nested program on a new
\* interpreter, the control-flow stack holds exactly the places of the loops
\* open around the pointer, innermost first and each once; so when a ']'
\* step executes the stack is not empty and its top is the place of the '['
\* matching that ']', a loop-back resumes just after that '[' with the stack
\* as it was, and a ']' that leaves the loop pops that one entry.
C18_TopIsMatchingOpen ==
    /\ []((FreshNested0 /\ pc = "running") =>
            inst_stack = Enclosing(program, inst_ptr))
    /\ [][(FreshNested0 /\ StepEnabled /\ Fetched = "]") =>
            /\ inst_stack # <<>>
            /\ inst_stack[1] = Enclosing(program, inst_ptr)[1]
            /\ program[inst_stack[1] + 1] = "["
            /\ LoopsBack =>
                  /\ pc' = "running"
                  /\ inst_ptr' = inst_stack[1] + 1
                  /\ inst_stack' = inst_stack
            /\ (pc' = "running" /\ ~LoopsBack) =>
                  /\ inst_ptr' = inst_ptr + 1
                  /\ inst_stack' = Tail(inst_stack)]_vars

\* The inner ']' of '++[[-]]' has looped back to just after the inner '[',
\* with both loops on the stack.
C18_Witness ==
    /\ FreshNested0 /\ program = <<"+", "+", "[", "[", "-", "]", "]">>
    /\ pc = "running" /\ c = "]" /\ inst_ptr = 4
    /\ inst_stack = <<3, 2>>

-----------------------------------------------------------------------------

\* C19: a '[' step never skips the loop body: at every level and whatever
\* the cell under the cursor holds, it raises nothing, pushes the place of
\* the '[' on the control-flow stack, changes nothing else, and leaves the
\* pointer just after the '['; the step that follows executes the symbol at
\* that place.
C19_OpenNeverSkips ==
    /\ [][(StepEnabled /\ Fetched = "[") =>
            /\ pc' = "running"
            /\ inst_ptr' = inst_ptr + 1
            /\ inst_stack' = <<inst_ptr>> \o inst_stack
            /\ UNCHANGED <<stack, stack_ptr, storage, storage_ptr, out>>]_vars
    /\ [][(StepEnabled /\ pc = "running" /\ c = "[") =>
            /\ inst_stack # <<>>
            /\ inst_ptr = inst_stack[1] + 1
            /\ c' = program[inst_stack[1] + 2]]_vars

\* The body of '[+]' has run although the cell was 0 at the '['.
C19_Witness ==
    /\ program = <<"[", "+", "]">>
    /\ pc = "running" /\ c = "+" /\ cycles = 2
    /\ stack_ptr = 0 /\ stack # <<>> /\ stack[1] = 1

-----------------------------------------------------------------------------

\* How many '@' the source holds, and how many the program.
SourceAts == Count(source, Len(source), "@")

ProgramAts == Count(program, Len(program), "@")

\* C20: at levels 2 and 3 the last '@' of the source is the payload delimiter
\* and never an instruction: the program holds one '@' fewer than the source
\* (none when the source has none) and is the command symbols of the text
\* before the last '@' (it stays empty when that text fails validation); so a source with one '@' never fetches '@' nor ends by
\* SystemExit and all that follows its '@' is initializer data, and a halt is
\* executed only when the source holds at least two '@'.
C20_LastAtIsDelimiter ==
    bfi_type >= 2 =>
        /\ ProgramAts <= SourceAts
        /\ SourceAts >= 1 => ProgramAts < SourceAts
        /\ Depth(CodePart, Len(CodePart)) # 0 => program = <<>>
        /\ (pc # "new" /\ Depth(CodePart, Len(CodePart)) = 0) =>
              /\ program = Executable(CodePart)
              /\ SourceAts >= 1 => ProgramAts = SourceAts - 1
              /\ Len(initializer_data) = Len(PayloadPart)
        /\ SourceAts = 1 => (c # "@" /\ exc # "SystemExit")
        /\ (c = "@" \/ exc = "SystemExit") => SourceAts >= 2

\* The source '@@' has run: its first '@' was executed as the halt.
C20_Witness ==
    /\ bfi_type >= 2 /\ source = <<"@", "@">>
    /\ program = <<"@">>
    /\ pc = "raised" /\ c = "@" /\ exc = "SystemExit"

=============================================================================
